---- MODULE Spec2Model ----
(***************************************************************************)
(* Notification-server discovery protocol of whisper/notifications:        *)
(* discoveryService.Start / Stop and the two request handlers               *)
(* processDiscoveryRequest and processServerAcceptedRequest                 *)
(* (whisper/notifications/discovery.go).                                    *)
(*                                                                          *)
(* Strings are sequences of one-character strings, so that "0x" + nodeID    *)
(* and hex.EncodeToString are computed rather than assumed.  Public keys    *)
(* and session keys are single bytes.  The TTL and PoW fields of the        *)
(* outgoing message parameters are configuration values that no handler     *)
(* branches on; they are left out of the message records.                   *)
(***************************************************************************)
EXTENDS Integers, Sequences, FiniteSets, TLC

\* ------------------------------------------------------------------ bounds
\* Spec, where the service is started once and never stopped: the number of
\* messages the transport brings to this node in one run
MaxMsgs == 2
\* SpecFree, where the owner calls Start and Stop in any order: the number
\* of messages, and of Start/Stop calls, in one run
FreeMaxMsgs == 1
FreeMaxCalls == 3
\* SpecFree: the number of filters the transport installs in one run
FreeMaxFilters == 4
\* SpecLive: the number of messages in one run
LiveMaxMsgs == 2
\* SpecGroup, several services on the same topics: the number of messages
\* clients put before the group in one run
GroupMaxMsgs == 2

\* --------------------------------------------------------------- constants
topicDiscoverServer == "DISCOVER_NOTIFICATION_SERVER"
topicProposeServer == "PROPOSE_NOTIFICATION_SERVER"
topicServerAccepted == "ACCEPT_NOTIFICATION_SERVER"
topicAckClientSubscription == "ACK_NOTIFICATION_SERVER_SUBSCRIPTION"

\* s.server.protocolKey, s.server.nodeID: fixed at construction
protocolKey == "NOTIFICATION_PROTOCOL_KEY"
nodeID == <<"a", "b">>
\* identity of some other notification server sharing the topics
otherNodeID == <<"c", "d">>

\* WorkTime of every message the service sends
WorkTime == 5

\* msg.Src: nil, or the public key of one of two clients
NoSrc == 0
Clients == {161, 178}

\* zero value of a filter id (string "")
NoFilter == 0

\* ------------------------------------------------------------------ errors
\* An error is the sequence of its message parts, outermost context first;
\* nil is the empty sequence.
NilErr == <<>>
MalformedPayloadError == <<"json: cannot unmarshal">>
MissingSenderError == <<"message 'from' field is required">>
RegistrationError == <<"registry: session not registered">>
TransportWrapError == <<"whisper: wrap failed">>
TransportSendError == <<"whisper: send failed">>

\* fmt.Errorf(ctx + ": %v", err)
Errorf(ctx, err) == <<ctx>> \o err

\* --------------------------------------------------------- pure conversions
HexDigits == <<"0", "1", "2", "3", "4", "5", "6", "7",
               "8", "9", "a", "b", "c", "d", "e", "f">>

\* hex.EncodeToString over a sequence of bytes
RECURSIVE HexEncodeToString(_)
HexEncodeToString(bytes) ==
    IF bytes = <<>> THEN <<>>
    ELSE <<HexDigits[(Head(bytes) \div 16) + 1], HexDigits[(Head(bytes) % 16) + 1]>>
         \o HexEncodeToString(Tail(bytes))

\* crypto.FromECDSAPub: the uncompressed-point marker 0x04, then the key
FromECDSAPub(pub) == <<4, pub>>

\* MakeTopic: one-way derivation of the topic value from the step name
MakeTopic(name) ==
    CASE name = topicDiscoverServer -> 11
      [] name = topicProposeServer -> 12
      [] name = topicServerAccepted -> 13
      [] name = topicAckClientSubscription -> 14

\* `0x` + s.server.nodeID
Prefixed0x(id) == <<"0", "x">> \o id

\* Payload bytes as received.  kind: "garbage" (not JSON), "object" (a JSON
\* object whose "server" member is the string `server`), "nofield" (a JSON
\* object without a "server" member), "number" (a JSON object whose "server"
\* member is a number).
Garbage == [kind |-> "garbage", server |-> <<>>]
ObjServer(s) == [kind |-> "object", server |-> s]
ObjNoField == [kind |-> "nofield", server |-> <<>>]
ObjNumber == [kind |-> "number", server |-> <<>>]

\* json.Unmarshal(msg.Payload, &parsedMessage)
JsonUnmarshal(payload) ==
    CASE payload.kind = "object" -> [err |-> NilErr, ServerID |-> payload.server]
      [] payload.kind = "nofield" -> [err |-> NilErr, ServerID |-> <<>>]
      [] OTHER -> [err |-> MalformedPayloadError, ServerID |-> <<>>]

\* payloads clients put on the ServerAccepted topic
AcceptPayloads ==
    { Garbage, ObjNumber, ObjNoField,
      ObjServer(Prefixed0x(nodeID)), ObjServer(Prefixed0x(otherNodeID)),
      ObjServer(nodeID) }
\* payloads clients put on the Discover topic
DiscoverPayloads == { Garbage, ObjServer(Prefixed0x(nodeID)) }

VARIABLES
    discoverFilterID,        \* discoveryService.discoverFilterID
    serverAcceptedFilterID,  \* discoveryService.serverAcceptedFilterID
    filters,                 \* transport: filter id -> [topic, fn, alive]
    callerPc,                \* position of the owner inside Start / Stop
    calls,                   \* log of finished Start / Stop calls
    arrived,                 \* log of messages the transport brought here
    handlers,                \* handler invocations, one per (message, filter)
    clientSessions,          \* Session Registry: set of [ClientKey, SessionKey]
    regCalls,                \* per handler: its RegisterClientSession calls
    sent,                    \* per handler: the envelopes whisper.Send took
    services,                \* a group of services on shared topics, by node identity
    broadcast                \* the messages clients have put before the group

vars == <<discoverFilterID, serverAcceptedFilterID, filters, callerPc, calls,
          arrived, handlers, clientSessions, regCalls, sent, services,
          broadcast>>

\* the node identities of the services of a group, pairwise distinct
Identities == {nodeID, otherNodeID}

\* NewDiscoveryService, lines 34-38, for a service of a group: not started,
\* no filter installed, nothing handled, an empty Session Registry of its own
NewService ==
    [pc |-> "new", discover |-> FALSE, accepted |-> FALSE,
     invocations |-> <<>>, clientSessions |-> {}]

Last(s) == s[Len(s)]
Indices(s) == [i \in 1..Len(s) |-> i]

Init ==
    /\ discoverFilterID = NoFilter
    /\ serverAcceptedFilterID = NoFilter
    /\ filters = <<>>
    /\ callerPc = "idle"
    /\ calls = <<>>
    /\ arrived = <<>>
    /\ handlers = <<>>
    /\ clientSessions = {}
    /\ regCalls = <<>>
    /\ sent = <<>>
    /\ services = [id \in Identities |-> NewService]
    /\ broadcast = <<>>


\* ------------------------------------------------------------- transport
\* installTopicFilter followed by `go requestProcessorLoop(id, topic, fn)`:
\* a new filter on MakeTopic(topicName) whose loop calls fn per message
InstallTopicFilter(fs, topicName, fn) ==
    Append(fs, [topic |-> MakeTopic(topicName), fn |-> fn, alive |-> TRUE])

\* whisper.Unwatch(id): the filter stops receiving; unknown ids are ignored
Unwatch(fs, id) ==
    IF id \in DOMAIN fs THEN [fs EXCEPT ![id].alive = FALSE] ELSE fs

AliveFilters(topic) ==
    SelectSeq(Indices(filters),
              LAMBDA f : filters[f].alive /\ filters[f].topic = topic)

\* ------------------------------------------------------------- lifecycle
\* the last call that returned
LastCall == IF calls = <<>> THEN "none" ELSE Last(calls)
\* Stop has returned and no Start call has been made since
StoppedNow == callerPc = "idle" /\ LastCall = "Stop"
\* Start has returned nil and no Stop call has been made since
RunningNow == callerPc = "idle" /\ LastCall = "StartOk"

\* Start as it would be if it released the pair it holds before installing
StartInstallDiscoverReleasingOld(maxCalls) ==
    /\ callerPc = "idle"
    /\ Len(calls) < maxCalls
    /\ \E ok \in BOOLEAN :
         IF ok
         THEN /\ filters' = InstallTopicFilter(
                                Unwatch(Unwatch(filters, discoverFilterID),
                                        serverAcceptedFilterID),
                                topicDiscoverServer, "processDiscoveryRequest")
              /\ discoverFilterID' = Len(filters) + 1
              /\ callerPc' = "start_accepted"
              /\ calls' = calls
         ELSE /\ discoverFilterID' = NoFilter
              /\ calls' = Append(calls, "StartErrDiscover")
              /\ UNCHANGED <<filters, callerPc>>
    /\ UNCHANGED <<serverAcceptedFilterID, arrived, handlers, clientSessions,
                   regCalls, sent,
                   services, broadcast>>

\* Start, lines 46-50: install the Discover filter, launch its loop
StartInstallDiscover(maxCalls) ==
    /\ callerPc = "idle"
    /\ Len(calls) < maxCalls
    /\ \E ok \in BOOLEAN :
         IF ok
         THEN /\ filters' = InstallTopicFilter(filters, topicDiscoverServer,
                                               "processDiscoveryRequest")
              /\ discoverFilterID' = Len(filters) + 1
              /\ callerPc' = "start_accepted"
              /\ calls' = calls
         ELSE /\ discoverFilterID' = NoFilter
              /\ calls' = Append(calls, "StartErrDiscover")
              /\ UNCHANGED <<filters, callerPc>>
    /\ UNCHANGED <<serverAcceptedFilterID, arrived, handlers, clientSessions,
                   regCalls, sent,
                   services, broadcast>>

\* the filters as they would be if Start released the Discover filter when
\* the second installation fails
StartOnAcceptedInstallErrorRollback(fs) == Unwatch(fs, discoverFilterID)

\* what Start does with the filters when the second installation fails
StartOnAcceptedInstallError(fs) == fs

\* Start, lines 53-60: install the ServerAccepted filter, launch its loop
StartInstallAccepted ==
    /\ callerPc = "start_accepted"
    /\ \E ok \in BOOLEAN :
         IF ok
         THEN /\ filters' = InstallTopicFilter(filters, topicServerAccepted,
                                               "processServerAcceptedRequest")
              /\ serverAcceptedFilterID' = Len(filters) + 1
              /\ calls' = Append(calls, "StartOk")
         ELSE /\ filters' = StartOnAcceptedInstallError(filters)
              /\ serverAcceptedFilterID' = NoFilter
              /\ calls' = Append(calls, "StartErrAccepted")
    /\ callerPc' = "idle"
    /\ UNCHANGED <<discoverFilterID, arrived, handlers, clientSessions,
                   regCalls, sent,
                   services, broadcast>>

\* Stop as it would be with the first Unwatch line copied and not edited
StopTargetsDiscoverTwice == <<discoverFilterID, discoverFilterID>>

\* Stop as it would be if it released the ServerAccepted filter only
StopTargetsAcceptedOnly == <<NoFilter, serverAcceptedFilterID>>

\* the filter ids Stop hands to Unwatch, in order
StopTargets == <<discoverFilterID, serverAcceptedFilterID>>

\* Stop, line 65
StopUnwatchDiscover(maxCalls) ==
    /\ callerPc = "idle"
    /\ Len(calls) < maxCalls
    /\ filters' = Unwatch(filters, StopTargets[1])
    /\ callerPc' = "stop_accepted"
    /\ UNCHANGED <<discoverFilterID, serverAcceptedFilterID, calls, arrived,
                   handlers, clientSessions, regCalls, sent,
                   services, broadcast>>

\* Stop as it would be if it also ended the invocations still in flight
StopCancellingHandlers ==
    /\ callerPc = "stop_accepted"
    /\ filters' = Unwatch(filters, StopTargets[2])
    /\ callerPc' = "idle"
    /\ calls' = Append(calls, "Stop")
    /\ handlers' = [j \in DOMAIN handlers |->
                      [handlers[j] EXCEPT !.pc = "done"]]
    /\ UNCHANGED <<discoverFilterID, serverAcceptedFilterID, arrived,
                   clientSessions, regCalls, sent,
                   services, broadcast>>

\* Stop, lines 66-69
StopUnwatchAccepted ==
    /\ callerPc = "stop_accepted"
    /\ filters' = Unwatch(filters, StopTargets[2])
    /\ callerPc' = "idle"
    /\ calls' = Append(calls, "Stop")
    /\ UNCHANGED <<discoverFilterID, serverAcceptedFilterID, arrived,
                   handlers, clientSessions, regCalls, sent,
                   services, broadcast>>

\* ------------------------------------------------------------- delivery
NewHandler(f, m) ==
    [msg |-> m, filter |-> f, fn |-> filters[f].fn, pc |-> "start",
     sessionKey |-> 0, attempts |-> 0, result |-> NilErr]

\* the messages clients may put on the two watched topics
AllMsgs ==
    [topicName : {topicDiscoverServer}, Src : {NoSrc} \cup Clients,
     Payload : DiscoverPayloads]
    \cup
    [topicName : {topicServerAccepted}, Src : {NoSrc} \cup Clients,
     Payload : AcceptPayloads]

\* those of them one client following the protocol sends: signed, and the
\* accept naming this node
ProtocolMsgs ==
    { m \in AllMsgs : m.Src = 161 /\ m.Payload = ObjServer(Prefixed0x(nodeID)) }

\* Start and Stop calls so far came strictly in turn, Start first
RECURSIVE InTurn(_)
InTurn(cs) ==
    \/ cs = <<>>
    \/ /\ InTurn(SubSeq(cs, 1, Len(cs) - 1))
       /\ (Last(cs) = "Stop") <=> (Len(cs) % 2 = 0)

\* A message comes in on one of the two watched topics.  Every filter on
\* that topic that is still installed hands it to its processing loop, which
\* invokes the handler once for it; with no such filter nothing is invoked.
Deliver(maxMsgs, msgs) ==
    /\ Len(arrived) < maxMsgs
    /\ \E msg \in msgs :
           LET m == Len(arrived) + 1
               to == AliveFilters(MakeTopic(msg.topicName))
           IN /\ arrived' = Append(arrived,
                      [Topic |-> MakeTopic(msg.topicName), Src |-> msg.Src,
                       Payload |-> msg.Payload, afterStop |-> StoppedNow,
                       inTurn |-> InTurn(calls)])
              /\ handlers' = handlers \o
                      [k \in 1..Len(to) |-> NewHandler(to[k], m)]
              /\ regCalls' = regCalls \o [k \in 1..Len(to) |-> <<>>]
              /\ sent' = sent \o [k \in 1..Len(to) |-> <<>>]
    /\ UNCHANGED <<discoverFilterID, serverAcceptedFilterID, filters, callerPc,
                   calls, clientSessions,
                   services, broadcast>>

Msg(i) == arrived[handlers[i].msg]

\* the return as it would be if an error ended the processing loop, taking
\* the loop's other pending invocations with it
ReturnEndingLoop(i, err) ==
    [j \in DOMAIN handlers |->
        IF j = i \/ (err # NilErr /\ handlers[j].filter = handlers[i].filter)
        THEN [handlers[j] EXCEPT !.pc = "done", !.result = err]
        ELSE handlers[j]]

\* a handler returns err: its invocation is over
Return(i, err) == [handlers EXCEPT ![i].pc = "done", ![i].result = err]

\* whisper.NewSentMessage / Wrap / Send on the parameters: the envelope goes
\* out, or wrapping fails, or sending fails
SendOutcomes == {"sent", "wrap_failed", "send_failed"}

PublishResult(outcome) ==
    CASE outcome = "sent" -> NilErr
      [] outcome = "wrap_failed" ->
            Errorf("failed to wrap server proposal message", TransportWrapError)
      [] outcome = "send_failed" ->
            Errorf("failed to send server proposal message", TransportSendError)

\* the end of a publish as it would be if a failed Wrap or Send were tried
\* again
PublishedRetrying(i, outcome) ==
    IF outcome = "sent"
    THEN [Return(i, NilErr) EXCEPT ![i].attempts = @ + 1]
    ELSE [handlers EXCEPT ![i].attempts = @ + 1]

\* lines 85-96 and 136-147: one Wrap (and Send) was attempted for invocation
\* i, and the handler returns what came of it
Published(i, outcome) ==
    [Return(i, PublishResult(outcome)) EXCEPT ![i].attempts = @ + 1]

\* ----------------------------------------------- processDiscoveryRequest
\* the Propose as it would be with the Ack's topic copied into it
ProposeParamsAckTopic(msg) ==
    [Dst |-> msg.Src, KeySym |-> protocolKey,
     Topic |-> MakeTopic(topicAckClientSubscription),
     Payload |-> [server |-> Prefixed0x(nodeID)],
     WorkTime |-> WorkTime]

\* lines 76-84
ProposeParams(msg) ==
    [Dst |-> msg.Src, KeySym |-> protocolKey,
     Topic |-> MakeTopic(topicProposeServer),
     Payload |-> [server |-> Prefixed0x(nodeID)],
     WorkTime |-> WorkTime]

\* the discover handler as it would be if it opened a session for the
\* sender when advertising
ProcessDiscoveryRequestRegistering(i) ==
    /\ i \in DOMAIN handlers
    /\ handlers[i].fn = "processDiscoveryRequest"
    /\ handlers[i].pc = "start"
    /\ \E outcome \in SendOutcomes :
         /\ sent' = IF outcome = "sent"
                    THEN [sent EXCEPT ![i] = Append(@, ProposeParams(Msg(i)))]
                    ELSE sent
         /\ handlers' = Published(i, outcome)
    /\ clientSessions' = clientSessions \cup
            {[ClientKey |-> HexEncodeToString(FromECDSAPub(Msg(i).Src)),
              SessionKey |-> Cardinality(clientSessions) + 1]}
    /\ UNCHANGED <<discoverFilterID, serverAcceptedFilterID, filters, callerPc,
                   calls, arrived, regCalls,
                   services, broadcast>>

\* lines 74-97
ProcessDiscoveryRequest(i) ==
    /\ i \in DOMAIN handlers
    /\ handlers[i].fn = "processDiscoveryRequest"
    /\ handlers[i].pc = "start"
    /\ \E outcome \in SendOutcomes :
         /\ sent' = IF outcome = "sent"
                    THEN [sent EXCEPT ![i] = Append(@, ProposeParams(Msg(i)))]
                    ELSE sent
         /\ handlers' = Published(i, outcome)
    /\ UNCHANGED <<discoverFilterID, serverAcceptedFilterID, filters, callerPc,
                   calls, arrived, clientSessions, regCalls,
                   services, broadcast>>

\* ------------------------------------------ processServerAcceptedRequest
\* the checks as they would be with the sender looked at before the payload
\* and the server identity compared before the sender
AcceptChecksSenderLast(msg) ==
    LET parsedMessage == JsonUnmarshal(msg.Payload)
    IN IF parsedMessage.err = NilErr /\ parsedMessage.ServerID # Prefixed0x(nodeID)
       THEN [next |-> "done", result |-> NilErr]
       ELSE IF msg.Src = NoSrc
       THEN [next |-> "done", result |-> MissingSenderError]
       ELSE IF parsedMessage.err # NilErr
       THEN [next |-> "done", result |-> parsedMessage.err]
       ELSE [next |-> "register", result |-> NilErr]

\* the checks as they would be with the "0x" left out of the comparison
AcceptChecksNoPrefix(msg) ==
    LET parsedMessage == JsonUnmarshal(msg.Payload)
    IN IF parsedMessage.err # NilErr
       THEN [next |-> "done", result |-> parsedMessage.err]
       ELSE IF msg.Src = NoSrc
       THEN [next |-> "done", result |-> MissingSenderError]
       ELSE IF parsedMessage.ServerID # nodeID
       THEN [next |-> "done", result |-> NilErr]
       ELSE [next |-> "register", result |-> NilErr]

\* the checks as they would be if a client that already has a session were
\* taken for served
AcceptChecksKnownClient(msg) ==
    LET parsedMessage == JsonUnmarshal(msg.Payload)
    IN IF parsedMessage.err # NilErr
       THEN [next |-> "done", result |-> parsedMessage.err]
       ELSE IF msg.Src = NoSrc
       THEN [next |-> "done", result |-> MissingSenderError]
       ELSE IF parsedMessage.ServerID # Prefixed0x(nodeID)
       THEN [next |-> "done", result |-> NilErr]
       ELSE IF \E cs \in clientSessions :
                  cs.ClientKey = HexEncodeToString(FromECDSAPub(msg.Src))
       THEN [next |-> "done", result |-> NilErr]
       ELSE [next |-> "register", result |-> NilErr]

\* lines 102-116: the checks made before the client is registered
AcceptChecks(msg) ==
    LET parsedMessage == JsonUnmarshal(msg.Payload)
    IN IF parsedMessage.err # NilErr
       THEN [next |-> "done", result |-> parsedMessage.err]
       ELSE IF msg.Src = NoSrc
       THEN [next |-> "done", result |-> MissingSenderError]
       ELSE IF parsedMessage.ServerID # Prefixed0x(nodeID)
       THEN [next |-> "done", result |-> NilErr]
       ELSE [next |-> "register", result |-> NilErr]


\* the ClientSession as it would be with the key bytes taken unmarshalled
ClientSessionForRawKey(msg) ==
    [ClientKey |-> HexEncodeToString(<<msg.Src>>)]

\* line 119-121: the ClientSession handed to the registry
ClientSessionFor(msg) ==
    [ClientKey |-> HexEncodeToString(FromECDSAPub(msg.Src))]

\* Session Registry: the key of the next session is one no session has
NewSessionKey == Cardinality(clientSessions) + 1

\* the registry's error as it would be returned if wrapped like the others
OnRegistrationErrorWrapped(err) == Errorf("failed to register client", err)

\* lines 122-124: what the handler returns when the registry reports err
OnRegistrationError(err) == err

\* lines 101-124: the checks, then RegisterClientSession.  The checks read
\* only the message and the node identity, so they form one step with the
\* registry call that follows them.
AcceptRegister(i) ==
    /\ i \in DOMAIN handlers
    /\ handlers[i].fn = "processServerAcceptedRequest"
    /\ handlers[i].pc = "start"
    /\ LET c == AcceptChecks(Msg(i))
           session == ClientSessionFor(Msg(i))
       IN IF c.next = "done"
          THEN /\ handlers' = Return(i, c.result)
               /\ UNCHANGED <<clientSessions, regCalls>>
          ELSE \E ok \in BOOLEAN :
            IF ok
            THEN /\ clientSessions' = clientSessions \cup
                        {[ClientKey |-> session.ClientKey,
                          SessionKey |-> NewSessionKey]}
                 /\ regCalls' = [regCalls EXCEPT ![i] = Append(@,
                        [ClientKey |-> session.ClientKey, err |-> NilErr,
                         sessionKey |-> NewSessionKey])]
                 /\ handlers' = [handlers EXCEPT ![i].pc = "publish",
                                                 ![i].sessionKey = NewSessionKey]
            ELSE /\ clientSessions' = clientSessions
                 /\ regCalls' = [regCalls EXCEPT ![i] = Append(@,
                        [ClientKey |-> session.ClientKey,
                         err |-> RegistrationError, sessionKey |-> 0])]
                 /\ handlers' = Return(i, OnRegistrationError(RegistrationError))
    /\ UNCHANGED <<discoverFilterID, serverAcceptedFilterID, filters, callerPc,
                   calls, arrived, sent,
                   services, broadcast>>

\* the Ack as it would be if the session key were read back from the
\* registry's newest session instead of from the handler's own variable
AckParamsNewestKey(msg, sessionKey) ==
    [Dst |-> msg.Src, KeySym |-> protocolKey,
     Topic |-> MakeTopic(topicAckClientSubscription),
     Payload |-> [server |-> Prefixed0x(nodeID),
                  key |-> Prefixed0x(HexEncodeToString(<<Cardinality(clientSessions)>>))],
     WorkTime |-> WorkTime]

\* lines 127-135
AckParams(msg, sessionKey) ==
    [Dst |-> msg.Src, KeySym |-> protocolKey,
     Topic |-> MakeTopic(topicAckClientSubscription),
     Payload |-> [server |-> Prefixed0x(nodeID),
                  key |-> Prefixed0x(HexEncodeToString(<<sessionKey>>))],
     WorkTime |-> WorkTime]

\* the publish of the Ack as it would be if a failed Wrap or Send took the
\* new session out of the registry again
AcceptPublishRollingBack(i) ==
    /\ i \in DOMAIN handlers
    /\ handlers[i].fn = "processServerAcceptedRequest"
    /\ handlers[i].pc = "publish"
    /\ \E outcome \in SendOutcomes :
         /\ sent' = IF outcome = "sent"
                    THEN [sent EXCEPT ![i] =
                            Append(@, AckParams(Msg(i), handlers[i].sessionKey))]
                    ELSE sent
         /\ handlers' = Published(i, outcome)
         /\ clientSessions' =
               IF outcome = "sent"
               THEN clientSessions
               ELSE { cs \in clientSessions :
                        cs.SessionKey # handlers[i].sessionKey }
    /\ UNCHANGED <<discoverFilterID, serverAcceptedFilterID, filters, callerPc,
                   calls, arrived, regCalls,
                   services, broadcast>>

\* lines 136-147
AcceptPublish(i) ==
    /\ i \in DOMAIN handlers
    /\ handlers[i].fn = "processServerAcceptedRequest"
    /\ handlers[i].pc = "publish"
    /\ \E outcome \in SendOutcomes :
         /\ sent' = IF outcome = "sent"
                    THEN [sent EXCEPT ![i] =
                            Append(@, AckParams(Msg(i), handlers[i].sessionKey))]
                    ELSE sent
         /\ handlers' = Published(i, outcome)
    /\ UNCHANGED <<discoverFilterID, serverAcceptedFilterID, filters, callerPc,
                   calls, arrived, clientSessions, regCalls,
                   services, broadcast>>

\* the loops as they would be if each ended after its first message
HandleFirstOnly(i) ==
    /\ i \in DOMAIN handlers
    /\ \A j \in DOMAIN handlers :
          j < i => handlers[j].filter # handlers[i].filter
    /\ \/ ProcessDiscoveryRequest(i)
       \/ AcceptRegister(i)
       \/ AcceptPublish(i)

\* requestProcessorLoop: the handler's next step for invocation i
Handle(i) ==
    \/ ProcessDiscoveryRequest(i)
    \/ AcceptRegister(i)
    \/ AcceptPublish(i)

\* The service is started once (the call may fail) and left running.
Next ==
    \/ StartInstallDiscover(1)
    \/ StartInstallAccepted
    \/ Deliver(MaxMsgs, AllMsgs)
    \/ \E i \in DOMAIN handlers : Handle(i)

Spec == Init /\ [][Next]_vars

\* the messages whose payload names this node, signed by a client or not
NamingMsgs == { m \in AllMsgs : m.Payload = ObjServer(Prefixed0x(nodeID)) }

\* The service is started once and left running, and every processing loop
\* is scheduled fairly: an invocation that can take a step eventually takes
\* it.
NextLive ==
    \/ StartInstallDiscover(1)
    \/ StartInstallAccepted
    \/ Deliver(LiveMaxMsgs, NamingMsgs)
    \/ \E i \in DOMAIN handlers : Handle(i)

SpecLive ==
    /\ Init /\ [][NextLive]_vars
    /\ \A i \in 1..LiveMaxMsgs : WF_vars(Handle(i))

\* Start and Stop in any order; the clients follow the protocol.
NextFree ==
    \/ Len(filters) + 2 <= FreeMaxFilters /\ StartInstallDiscover(FreeMaxCalls)
    \/ StartInstallAccepted
    \/ StopUnwatchDiscover(FreeMaxCalls)
    \/ StopUnwatchAccepted
    \/ Deliver(FreeMaxMsgs, ProtocolMsgs)
    \/ \E i \in DOMAIN handlers : Handle(i)

SpecFree == Init /\ [][NextFree]_vars

\* --------------------------------------------------- a group of services
\* Several services, each with its own node identity and its own Session
\* Registry, watch the same two topics.  Each runs the code above; what it
\* does for one message is taken as one step, as the services share nothing
\* but the messages.

mainVars == <<discoverFilterID, serverAcceptedFilterID, filters, callerPc,
              calls, arrived, handlers, clientSessions, regCalls, sent>>

\* Start of service id, lines 46-50
ServiceStartDiscover(id) ==
    /\ services[id].pc = "new"
    /\ \E ok \in BOOLEAN :
         services' = [services EXCEPT
                        ![id].pc = IF ok THEN "start_accepted" ELSE "returned",
                        ![id].discover = ok]
    /\ UNCHANGED <<broadcast, mainVars>>

\* Start of service id, lines 53-60
ServiceStartAccepted(id) ==
    /\ services[id].pc = "start_accepted"
    /\ \E ok \in BOOLEAN :
         services' = [services EXCEPT ![id].pc = "returned",
                                      ![id].accepted = ok]
    /\ UNCHANGED <<broadcast, mainVars>>

\* the handler fn of a service is invoked for message m
NewInvocation(fn, m) ==
    [msg |-> m, fn |-> fn, done |-> FALSE, result |-> NilErr,
     regCalls |-> <<>>, sent |-> <<>>]

\* message m reaches service id: its loop invokes fn when the filter is
\* installed
Handed(id, installed, fn, m) ==
    IF installed
    THEN [services[id] EXCEPT !.invocations = Append(@, NewInvocation(fn, m))]
    ELSE services[id]

\* a client, signing or not, asks on the Discover topic
ClientDiscover(maxMsgs) ==
    /\ Len(broadcast) < maxMsgs
    /\ \E src \in {NoSrc, 161} :
         /\ broadcast' = Append(broadcast,
                [Topic |-> MakeTopic(topicDiscoverServer), Src |-> src,
                 Payload |-> Garbage])
         /\ services' = [id \in Identities |->
                Handed(id, services[id].discover, "processDiscoveryRequest",
                       Len(broadcast) + 1)]
    /\ UNCHANGED mainVars

\* the client a Propose was published to picks it and sends the accept
\* message, the Propose's "server" member copied as it is
ClientAccept(maxMsgs) ==
    /\ Len(broadcast) < maxMsgs
    /\ \E id \in Identities : \E k \in DOMAIN services[id].invocations :
         LET inv == services[id].invocations[k]
         IN /\ inv.fn = "processDiscoveryRequest"
            /\ inv.sent # <<>>
            /\ broadcast' = Append(broadcast,
                   [Topic |-> MakeTopic(topicServerAccepted),
                    Src |-> inv.sent[1].Dst,
                    Payload |-> ObjServer(inv.sent[1].Payload.server)])
            /\ services' = [j \in Identities |->
                   Handed(j, services[j].accepted,
                          "processServerAcceptedRequest", Len(broadcast) + 1)]
    /\ UNCHANGED mainVars

\* lines 76-84 in a service whose node identity is id
ProposeParamsOf(id, msg) ==
    [ProposeParams(msg) EXCEPT !.Payload = [server |-> Prefixed0x(id)]]

\* the checks as they would be without the comparison of the server named
AcceptChecksOfAnyServer(id, msg) ==
    LET parsedMessage == JsonUnmarshal(msg.Payload)
    IN IF parsedMessage.err # NilErr
       THEN [next |-> "done", result |-> parsedMessage.err]
       ELSE IF msg.Src = NoSrc
       THEN [next |-> "done", result |-> MissingSenderError]
       ELSE [next |-> "register", result |-> NilErr]

\* lines 102-116 in a service whose node identity is id
AcceptChecksOf(id, msg) ==
    LET parsedMessage == JsonUnmarshal(msg.Payload)
    IN IF parsedMessage.err # NilErr
       THEN [next |-> "done", result |-> parsedMessage.err]
       ELSE IF msg.Src = NoSrc
       THEN [next |-> "done", result |-> MissingSenderError]
       ELSE IF parsedMessage.ServerID # Prefixed0x(id)
       THEN [next |-> "done", result |-> NilErr]
       ELSE [next |-> "register", result |-> NilErr]

\* lines 127-135 in a service whose node identity is id
AckParamsOf(id, msg, sessionKey) ==
    [AckParams(msg, sessionKey) EXCEPT !.Payload.server = Prefixed0x(id)]

\* invocation k of service id ends with result err, having made the
\* registry calls regs and published the envelopes out
Ended(id, k, err, regs, out) ==
    [services[id].invocations[k] EXCEPT
        !.done = TRUE, !.result = err, !.regCalls = regs, !.sent = out]

\* lines 74-97 and 101-148: service id handles the message of its
\* invocation k
ServiceHandle(id, k) ==
    /\ k \in DOMAIN services[id].invocations
    /\ ~services[id].invocations[k].done
    /\ LET inv == services[id].invocations[k]
           msg == broadcast[inv.msg]
           c == AcceptChecksOf(id, msg)
           session == ClientSessionFor(msg)
           sessionKey == Cardinality(services[id].clientSessions) + 1
       IN IF inv.fn = "processDiscoveryRequest"
          THEN \E outcome \in SendOutcomes :
                 services' = [services EXCEPT ![id].invocations[k] =
                     Ended(id, k, PublishResult(outcome), <<>>,
                           IF outcome = "sent"
                           THEN <<ProposeParamsOf(id, msg)>> ELSE <<>>)]
          ELSE IF c.next = "done"
          THEN services' = [services EXCEPT ![id].invocations[k] =
                     Ended(id, k, c.result, <<>>, <<>>)]
          ELSE \/ services' = [services EXCEPT ![id].invocations[k] =
                     Ended(id, k, OnRegistrationError(RegistrationError),
                           <<[ClientKey |-> session.ClientKey,
                              err |-> RegistrationError, sessionKey |-> 0]>>,
                           <<>>)]
               \/ \E outcome \in SendOutcomes :
                    services' = [services EXCEPT
                        ![id].clientSessions = @ \cup
                            {[ClientKey |-> session.ClientKey,
                              SessionKey |-> sessionKey]},
                        ![id].invocations[k] =
                            Ended(id, k, PublishResult(outcome),
                                  <<[ClientKey |-> session.ClientKey,
                                     err |-> NilErr,
                                     sessionKey |-> sessionKey]>>,
                                  IF outcome = "sent"
                                  THEN <<AckParamsOf(id, msg, sessionKey)>>
                                  ELSE <<>>)]
    /\ UNCHANGED <<broadcast, mainVars>>

NextGroup ==
    \/ \E id \in Identities : ServiceStartDiscover(id)
    \/ \E id \in Identities : ServiceStartAccepted(id)
    \/ ClientDiscover(GroupMaxMsgs)
    \/ ClientAccept(GroupMaxMsgs)
    \/ \E id \in Identities : \E k \in 1..GroupMaxMsgs : ServiceHandle(id, k)

SpecGroup == Init /\ [][NextGroup]_vars

\* ------------------------------------------------------------------ claims
Accepts == { i \in DOMAIN handlers : handlers[i].fn = "processServerAcceptedRequest" }
Discovers == { i \in DOMAIN handlers : handlers[i].fn = "processDiscoveryRequest" }
Returned(i) == handlers[i].pc = "done"

\* the wire forms the protocol prescribes, written out
ThisServerText == <<"0", "x", "a", "b">>
ClientKeyText(src) ==
    CASE src = 161 -> <<"0", "4", "a", "1">>
      [] src = 178 -> <<"0", "4", "b", "2">>
SessionKeyText(k) ==
    CASE k = 1 -> <<"0", "x", "0", "1">>
      [] k = 2 -> <<"0", "x", "0", "2">>
      [] k = 3 -> <<"0", "x", "0", "3">>
      [] k = 4 -> <<"0", "x", "0", "4">>
      [] OTHER -> <<"?">>

\* an accept message that decodes, is signed and names this server
ValidAccept(msg) ==
    /\ msg.Payload.kind = "object"
    /\ msg.Payload.server = ThisServerText
    /\ msg.Src # NoSrc

\* C1: a valid accept message naming this server, whose registration and
\* publish succeed (the handler returns nil), caused exactly one
\* registerSession call, for the hex form of its sender's public key, and
\* exactly one Ack: to that sender, on the AckSubscription topic, carrying
\* the session key that call returned.
C1_OneRegistrationOneAck ==
    \A i \in Accepts :
        (Returned(i) /\ ValidAccept(Msg(i)) /\ handlers[i].result = NilErr) =>
            /\ Len(regCalls[i]) = 1
            /\ regCalls[i][1].err = NilErr
            /\ regCalls[i][1].ClientKey = ClientKeyText(Msg(i).Src)
            /\ Len(sent[i]) = 1
            /\ sent[i][1].Dst = Msg(i).Src
            /\ sent[i][1].Topic = MakeTopic(topicAckClientSubscription)
            /\ sent[i][1].Payload.server = ThisServerText
            /\ sent[i][1].Payload.key = SessionKeyText(regCalls[i][1].sessionKey)

C1_Witness ==
    \E i \in Accepts :
        /\ Returned(i) /\ ValidAccept(Msg(i)) /\ handlers[i].result = NilErr
        /\ Len(sent[i]) = 1

\* the Acks a handler published carry a key the registry holds for its client
AckKeysAreOwn(i) ==
    \A n \in DOMAIN sent[i] :
        /\ sent[i][n].Dst = Msg(i).Src
        /\ \E r \in DOMAIN regCalls[i] :
              /\ regCalls[i][r].err = NilErr
              /\ sent[i][n].Payload.key = SessionKeyText(regCalls[i][r].sessionKey)
              /\ [ClientKey |-> ClientKeyText(Msg(i).Src),
                  SessionKey |-> regCalls[i][r].sessionKey] \in clientSessions

\* C2: two accept messages of two distinct clients, both naming this server,
\* handled concurrently: under every interleaving the two registrations got
\* different session keys, and each Ack goes to its own client with the key
\* of that client's registration, never with the other's.
C2_NoCrossTalk ==
    \A i, j \in Accepts :
        (/\ i # j
         /\ ValidAccept(Msg(i)) /\ ValidAccept(Msg(j))
         /\ Msg(i).Src # Msg(j).Src) =>
            /\ AckKeysAreOwn(i)
            /\ \A n \in DOMAIN sent[i], r \in DOMAIN regCalls[j] :
                  regCalls[j][r].err = NilErr =>
                     sent[i][n].Payload.key # SessionKeyText(regCalls[j][r].sessionKey)
            /\ \A q \in DOMAIN regCalls[i], r \in DOMAIN regCalls[j] :
                  (regCalls[i][q].err = NilErr /\ regCalls[j][r].err = NilErr) =>
                     regCalls[i][q].sessionKey # regCalls[j][r].sessionKey

\* the handler that registered second has published its Ack while the one
\* that registered first has not yet published: the two ran interleaved
C2_Witness ==
    \E i, j \in Accepts :
        /\ i # j
        /\ ValidAccept(Msg(i)) /\ ValidAccept(Msg(j))
        /\ Msg(i).Src # Msg(j).Src
        /\ handlers[i].pc = "publish" /\ handlers[i].sessionKey = 1
        /\ Returned(j) /\ Len(sent[j]) = 1
        /\ sent[j][1].Payload.key = SessionKeyText(2)

\* an accept message that decodes and is signed, for another server
OtherServerAccept(msg) ==
    /\ msg.Payload.kind \in {"object", "nofield"}
    /\ msg.Payload.server # ThisServerText
    /\ msg.Src # NoSrc

\* C3: a signed accept message whose server field is not "0x" + this node's
\* identity causes no registerSession call and no publish, and its handler
\* returns nil.
C3_OtherServerIgnored ==
    \A i \in Accepts :
        OtherServerAccept(Msg(i)) =>
            /\ regCalls[i] = <<>>
            /\ sent[i] = <<>>
            /\ Returned(i) => handlers[i].result = NilErr

C3_Witness ==
    \E i \in Accepts :
        /\ OtherServerAccept(Msg(i)) /\ Returned(i)
        /\ Msg(i).Payload.server = <<"a", "b">>

\* C4 (as claimed): a discover message without sender is rejected before any
\* publish: no Propose goes out and the handler returns MissingSenderError.
C4_UnsignedDiscoverRejected ==
    \A i \in Discovers :
        Msg(i).Src = NoSrc =>
            /\ sent[i] = <<>>
            /\ Returned(i) => handlers[i].result = MissingSenderError

\* what a Propose of this node looks like on the wire
IsProposeTo(p, src) ==
    /\ p.Dst = src
    /\ p.Topic = MakeTopic(topicProposeServer)
    /\ p.Payload = [server |-> ThisServerText]

\* C5 (as claimed): every signed discover message, whatever its payload, got
\* exactly one Propose published: to its sender, on the ProposeServer topic,
\* naming "0x" + this node's identity.
C5_AlwaysOnePropose ==
    \A i \in Discovers :
        (Returned(i) /\ Msg(i).Src # NoSrc) =>
            /\ Len(sent[i]) = 1
            /\ IsProposeTo(sent[i][1], Msg(i).Src)

\* C5 (amended): every signed discover message, whatever its payload, got
\* exactly one Propose published (to its sender, on the ProposeServer topic,
\* naming "0x" + this node's identity) when wrapping and sending succeeded,
\* and none, with a wrapped error returned, when either failed.
C5_OneProposeUnlessTransportFails ==
    \A i \in Discovers :
        (Returned(i) /\ Msg(i).Src # NoSrc) =>
            IF handlers[i].result = NilErr
            THEN /\ Len(sent[i]) = 1
                 /\ IsProposeTo(sent[i][1], Msg(i).Src)
            ELSE /\ sent[i] = <<>>
                 /\ Len(handlers[i].result) = 2
                 /\ handlers[i].result[2] \in {TransportWrapError[1], TransportSendError[1]}

\* both payloads were answered, and one discover was lost in the transport
C5_Witness ==
    /\ \E i \in Discovers :
          /\ Returned(i) /\ Msg(i).Src # NoSrc /\ Msg(i).Payload = Garbage
          /\ Len(sent[i]) = 1
    /\ \E i \in Discovers :
          /\ Returned(i) /\ Msg(i).Src # NoSrc /\ Msg(i).Payload # Garbage
          /\ handlers[i].result # NilErr

\* C6 (as claimed): when Start fails on the ServerAccepted installation, no
\* filter of the service stays installed.
C6_FailedStartLeavesNothing ==
    (callerPc = "idle" /\ LastCall = "StartErrAccepted") =>
        \A f \in DOMAIN filters : ~filters[f].alive

\* C7: the accept handler checks decode, then sender, then server identity,
\* and fails with the first check that fails: an undecodable payload gives
\* the decode error also without sender; a decodable one without sender
\* gives MissingSenderError also when it names another server; neither
\* registers nor publishes.
C7_ChecksInOrder ==
    \A i \in Accepts :
        /\ Msg(i).Payload.kind \in {"garbage", "number"} =>
              /\ regCalls[i] = <<>> /\ sent[i] = <<>>
              /\ Returned(i) => handlers[i].result = MalformedPayloadError
        /\ (Msg(i).Payload.kind \in {"object", "nofield"} /\ Msg(i).Src = NoSrc) =>
              /\ regCalls[i] = <<>> /\ sent[i] = <<>>
              /\ Returned(i) => handlers[i].result = MissingSenderError

C7_Witness ==
    /\ \E i \in Accepts :
          /\ Returned(i) /\ Msg(i).Payload.kind = "garbage" /\ Msg(i).Src = NoSrc
    /\ \E i \in Accepts :
          /\ Returned(i) /\ Msg(i).Src = NoSrc
          /\ Msg(i).Payload.kind = "object"
          /\ Msg(i).Payload.server = <<"0", "x", "c", "d">>

\* C8 (as claimed): a message delivered after Stop has returned triggers no
\* registerSession call.
C8_NoRegistrationAfterStop ==
    \A i \in DOMAIN handlers :
        Msg(i).afterStop => regCalls[i] = <<>>

\* C8 (amended): when Start and Stop calls have come strictly in turn, a
\* message delivered after Stop has returned (and before the next Start) is
\* handed to no handler, so it triggers no registerSession call.
C8_NoRegistrationAfterStopInTurn ==
    \A m \in DOMAIN arrived :
        (arrived[m].afterStop /\ arrived[m].inTurn) =>
            \A i \in DOMAIN handlers :
                /\ handlers[i].msg # m
                /\ handlers[i].msg = m => regCalls[i] = <<>>

\* an accept message arrived after the Stop that followed a successful Start
C8_Witness ==
    \E m \in DOMAIN arrived :
        /\ arrived[m].afterStop /\ arrived[m].inTurn
        /\ arrived[m].Topic = MakeTopic(topicServerAccepted)
        /\ \E k \in DOMAIN calls : calls[k] = "StartOk"

AllStartsOk == \A k \in DOMAIN calls : calls[k] \in {"StartOk", "Stop"}

\* C9: while Start and Stop strictly alternate and every Start succeeds,
\* exactly one Discover filter and exactly one ServerAccepted filter of the
\* service are installed whenever it is Running, and none after a Stop.
C9_OnePairWhileRunning ==
    (InTurn(calls) /\ AllStartsOk) =>
        /\ RunningNow =>
              /\ Len(AliveFilters(MakeTopic(topicDiscoverServer))) = 1
              /\ Len(AliveFilters(MakeTopic(topicServerAccepted))) = 1
              /\ Cardinality({f \in DOMAIN filters : filters[f].alive}) = 2
        /\ StoppedNow => \A f \in DOMAIN filters : ~filters[f].alive

\* Running again after a Start, a Stop and a second Start
C9_Witness ==
    /\ InTurn(calls) /\ AllStartsOk /\ RunningNow
    /\ Len(calls) = 3

\* C10: when registerSession fails for a valid accept message, the handler
\* returns the registry's error as it is and publishes no Ack.
C10_RegistryErrorAsIs ==
    \A i \in Accepts :
        \A r \in DOMAIN regCalls[i] :
            regCalls[i][r].err # NilErr =>
                /\ Returned(i)
                /\ handlers[i].result = regCalls[i][r].err
                /\ sent[i] = <<>>
                /\ Len(regCalls[i]) = 1

C10_Witness ==
    \E i \in Accepts :
        /\ ValidAccept(Msg(i)) /\ Returned(i)
        /\ Len(regCalls[i]) = 1 /\ regCalls[i][1].err = RegistrationError

\* two deliveries of the same client's valid accept message, both handled
Duplicates(i, j) ==
    /\ i # j
    /\ ValidAccept(Msg(i)) /\ ValidAccept(Msg(j))
    /\ Msg(i).Src = Msg(j).Src
    /\ Returned(i) /\ Returned(j)

\* C11 (as claimed): the same client's valid accept delivered twice caused
\* two registerSession calls and two Acks, each Ack with the key of its own
\* registration, the two keys different.
C11_EveryDuplicateAcked ==
    \A i, j \in Accepts :
        Duplicates(i, j) =>
            /\ Len(regCalls[i]) = 1 /\ Len(sent[i]) = 1
            /\ Len(regCalls[j]) = 1 /\ Len(sent[j]) = 1
            /\ sent[i][1].Payload.key = SessionKeyText(regCalls[i][1].sessionKey)
            /\ sent[i][1].Payload.key # sent[j][1].Payload.key

\* C11 (amended): the same client's valid accept delivered twice caused one
\* registerSession call per delivery; every delivery whose registration and
\* publish succeeded got one Ack with the key of its own registration, and
\* two successful registrations returned different keys.
C11_DuplicatesNotDeduplicated ==
    \A i, j \in Accepts :
        Duplicates(i, j) =>
            /\ Len(regCalls[i]) = 1
            /\ regCalls[i][1].ClientKey = ClientKeyText(Msg(i).Src)
            /\ handlers[i].result = NilErr =>
                  /\ regCalls[i][1].err = NilErr
                  /\ Len(sent[i]) = 1
                  /\ sent[i][1].Dst = Msg(i).Src
                  /\ sent[i][1].Payload.key = SessionKeyText(regCalls[i][1].sessionKey)
            /\ handlers[i].result # NilErr => sent[i] = <<>>
            /\ (regCalls[i][1].err = NilErr /\ regCalls[j][1].err = NilErr) =>
                  regCalls[i][1].sessionKey # regCalls[j][1].sessionKey

C11_Witness ==
    \E i, j \in Accepts :
        /\ Duplicates(i, j)
        /\ Len(sent[i]) = 1 /\ Len(sent[j]) = 1
        /\ sent[i][1].Payload.key = SessionKeyText(1)
        /\ sent[j][1].Payload.key = SessionKeyText(2)
        /\ Cardinality(clientSessions) = 2

\* handler invocation i returns an error in this step
ReturnsError(i) ==
    /\ handlers[i].pc # "done"
    /\ handlers'[i].pc = "done"
    /\ handlers'[i].result # NilErr

\* C12: a handler returning an error (missing sender, malformed payload,
\* registration, wrap or publish failure) changes nothing but its own
\* invocation: the filters and their handles, the lifecycle and every other
\* invocation with its registrations and publishes stay as they are, and
\* every invocation in flight can always take its next step.
C12_ErrorsAreLocal ==
    /\ [](\A j \in DOMAIN handlers :
             handlers[j].pc # "done" => ENABLED Handle(j))
    /\ [][\A i \in DOMAIN handlers :
             ReturnsError(i) =>
                /\ UNCHANGED <<discoverFilterID, serverAcceptedFilterID, filters,
                               callerPc, calls, arrived, sent>>
                /\ \A j \in DOMAIN handlers \ {i} :
                      /\ handlers'[j] = handlers[j]
                      /\ regCalls'[j] = regCalls[j]]_vars

\* after an invocation failed, a later message was served in full by the
\* service, still running with both filters
C12_Witness ==
    /\ RunningNow
    /\ Len(AliveFilters(MakeTopic(topicDiscoverServer))) = 1
    /\ Len(AliveFilters(MakeTopic(topicServerAccepted))) = 1
    /\ \E i, j \in Accepts :
          /\ handlers[i].msg < handlers[j].msg
          /\ Returned(i) /\ handlers[i].result # NilErr
          /\ ValidAccept(Msg(j)) /\ Returned(j) /\ handlers[j].result = NilErr
          /\ Len(sent[j]) = 1

\* invocation i was started before Stop and has not returned
InFlight(i) == handlers[i].pc # "done" /\ ~Msg(i).afterStop

\* C13: Stop neither cancels nor waits for an invocation in flight: its two
\* steps leave every invocation as it is, Stop returns while invocations are
\* in flight, and an invocation in flight can take its next step (the
\* registerSession call, the publish) whether or not the service is stopped.
C13_StopLeavesHandlersRunning ==
    /\ [](\A i \in DOMAIN handlers :
             handlers[i].pc # "done" => ENABLED Handle(i))
    /\ [][callerPc' # callerPc =>
             UNCHANGED <<handlers, regCalls, sent, clientSessions>>]_vars

\* the service is Stopped, and an accept handler started before Stop is
\* about to register its client
C13_Witness ==
    /\ StoppedNow
    /\ \A f \in DOMAIN filters : ~filters[f].alive
    /\ \E i \in Accepts :
          /\ InFlight(i) /\ handlers[i].pc = "start"
          /\ ValidAccept(Msg(i))
          /\ ENABLED AcceptRegister(i)

\* Start was called, returned nil, and was called again and returned nil
StartedTwice == Len(calls) >= 2 /\ calls[1] = "StartOk" /\ calls[2] = "StartOk"
\* the invocations made for message m
HandlersOf(m) == { i \in DOMAIN handlers : handlers[i].msg = m }

\* C14: a second Start on a Running service installs a second pair of
\* filters with a second pair of loops (a message then gets two invocations,
\* one from each pair) and stores the second pair's handles; the following
\* Stop releases the second pair only, and the first pair stays installed
\* and is the one that handles a message delivered after Stop.
C14_StartNotIdempotent ==
    StartedTwice =>
        /\ Len(filters) >= 4
        /\ filters[1].topic = filters[3].topic
        /\ filters[2].topic = filters[4].topic
        /\ filters[1].topic # filters[2].topic
        /\ (Len(calls) = 2 /\ callerPc = "idle") =>
              /\ \A f \in 1..4 : filters[f].alive
              /\ discoverFilterID = 3 /\ serverAcceptedFilterID = 4
              /\ \A m \in DOMAIN arrived :
                    ~arrived[m].inTurn =>
                        /\ Cardinality(HandlersOf(m)) = 2
                        /\ \E f \in {1, 2} :
                              { handlers[i].filter : i \in HandlersOf(m) }
                                  = {f, f + 2}
        /\ (Len(calls) >= 3 /\ calls[3] = "Stop") =>
              /\ filters[1].alive /\ filters[2].alive
              /\ ~filters[3].alive /\ ~filters[4].alive
              /\ \A m \in DOMAIN arrived :
                    arrived[m].afterStop =>
                        /\ Cardinality(HandlersOf(m)) = 1
                        /\ \A i \in HandlersOf(m) : handlers[i].filter \in {1, 2}

\* after Start, Start, Stop a message was delivered, and the first pair's
\* handler has published its answer
C14_Witness ==
    /\ StartedTwice /\ StoppedNow
    /\ \E i \in DOMAIN handlers :
          /\ Msg(i).afterStop
          /\ handlers[i].filter \in {1, 2}
          /\ Returned(i) /\ Len(sent[i]) = 1

\* what a handler returns when its Wrap or its Send fails: the transport's
\* error behind a context
WrappedTransportErrors ==
    { Errorf(ctx, err) :
        ctx \in {"failed to wrap server proposal message",
                 "failed to send server proposal message"},
        err \in {TransportWrapError, TransportSendError} }

\* invocation i attempted its publish and the attempt failed
PublishFailed(i) == handlers[i].attempts = 1 /\ sent[i] = <<>>

\* C16: no handler retries.  Every invocation makes at most one publish
\* attempt and at most one registerSession call; when the attempt fails the
\* invocation has returned an error wrapped with context, nothing was
\* published for it, and it takes no further step.
C16_NoRetry ==
    \A i \in DOMAIN handlers :
        /\ handlers[i].attempts <= 1
        /\ Len(sent[i]) <= handlers[i].attempts
        /\ Len(regCalls[i]) <= 1
        /\ PublishFailed(i) =>
              /\ Returned(i)
              /\ handlers[i].result \in WrappedTransportErrors
              /\ handlers[i].result[1] # handlers[i].result[2]
        /\ Returned(i) => ~ENABLED Handle(i)

\* an accept handler registered its client and then failed to publish, and
\* a discover handler failed to publish
C16_Witness ==
    /\ \E i \in Accepts : PublishFailed(i) /\ Len(regCalls[i]) = 1
    /\ \E i \in Discovers : PublishFailed(i)

\* C17: the advertise step is stateless.  A step of a discover handler,
\* whether its publish succeeds or fails, leaves the two stored filter
\* handles, the installed filters and the Session Registry as they are, and
\* no discover invocation ever calls registerSession; this holds with
\* several discover invocations in flight at once.  (The node identity and
\* the protocol key are never assigned after construction.)
C17_AdvertiseStateless ==
    /\ [](\A i \in Discovers : regCalls[i] = <<>>)
    /\ [][\A i \in DOMAIN handlers :
             (handlers[i].fn = "processDiscoveryRequest"
                 /\ handlers'[i] # handlers[i]) =>
                UNCHANGED <<discoverFilterID, serverAcceptedFilterID, filters,
                            clientSessions, regCalls>>]_vars

\* two discover messages were in flight together; one has been answered,
\* the other's publish has failed
C17_Witness ==
    \E i, j \in Discovers :
        /\ i # j
        /\ Returned(i) /\ Len(sent[i]) = 1
        /\ Returned(j) /\ PublishFailed(j)

\* C18: when wrapping or sending the Ack fails after registerSession has
\* succeeded, the handler returns an error, the Session Registry still
\* holds the session that was created, and no published message carries
\* that session's key.
C18_FailedAckKeepsSession ==
    \A i \in Accepts :
        PublishFailed(i) =>
            /\ Returned(i)
            /\ handlers[i].result # NilErr
            /\ Len(regCalls[i]) = 1
            /\ regCalls[i][1].err = NilErr
            /\ regCalls[i][1].sessionKey = handlers[i].sessionKey
            /\ [ClientKey |-> ClientKeyText(Msg(i).Src),
                SessionKey |-> handlers[i].sessionKey] \in clientSessions
            /\ \A j \in DOMAIN handlers : \A n \in DOMAIN sent[j] :
                  sent[j][n].Topic = MakeTopic(topicAckClientSubscription) =>
                     sent[j][n].Payload.key #
                         SessionKeyText(handlers[i].sessionKey)

\* a registration succeeded, its Ack was not sent, and another accept of
\* the same client has been acked with a key of its own
C18_Witness ==
    \E i, j \in Accepts :
        /\ PublishFailed(i)
        /\ Len(sent[j]) = 1
        /\ Msg(j).Src = Msg(i).Src
        /\ Cardinality(clientSessions) = 2

\* only the Discover filter is installed, its handle is stored, and its
\* loop is running: a discover invocation can be made and can take its step
DiscoverOnly ==
    /\ Len(filters) = 1
    /\ filters[1].topic = MakeTopic(topicDiscoverServer)
    /\ filters[1].fn = "processDiscoveryRequest"
    /\ filters[1].alive
    /\ discoverFilterID = 1
    /\ AliveFilters(MakeTopic(topicServerAccepted)) = <<>>
    /\ Accepts = {}
    /\ \A i \in Discovers : ~Returned(i) => ENABLED ProcessDiscoveryRequest(i)

\* C19: Start installs the Discover filter and launches its loop before it
\* installs the ServerAccepted filter and launches that loop.  Between the
\* two installations, and after a Start whose second installation failed,
\* the Discover filter is installed and served while no ServerAccepted
\* filter is; a ServerAccepted filter is never installed without a Discover
\* filter installed before it, and accept handlers run only after Start has
\* returned nil.
C19_DiscoverServedBeforeAccepted ==
    /\ (callerPc = "start_accepted" \/ LastCall = "StartErrAccepted")
          => DiscoverOnly
    /\ \A f \in DOMAIN filters :
          filters[f].topic = MakeTopic(topicServerAccepted) =>
             /\ f > 1
             /\ filters[f - 1].topic = MakeTopic(topicDiscoverServer)
    /\ Accepts # {} => LastCall = "StartOk"

\* Start is between its two installations, a discover message has been
\* answered with a Propose, and no ServerAccepted filter is installed
C19_Witness ==
    /\ callerPc = "start_accepted"
    /\ AliveFilters(MakeTopic(topicServerAccepted)) = <<>>
    /\ \E i \in Discovers :
          /\ Msg(i).Src # NoSrc
          /\ Returned(i) /\ Len(sent[i]) = 1
          /\ sent[i][1].Topic = MakeTopic(topicProposeServer)

\* invocation i has published its answer to the sender of its message
Answered(i) ==
    /\ Len(sent[i]) = 1
    /\ sent[i][1].Dst = Msg(i).Src
    /\ sent[i][1].Topic =
          IF handlers[i].fn = "processDiscoveryRequest"
          THEN MakeTopic(topicProposeServer)
          ELSE MakeTopic(topicAckClientSubscription)

\* the registerSession call of invocation i returned an error
RegistrationFailed(i) ==
    regCalls[i] # <<>> /\ regCalls[i][1].err # NilErr

\* C20: with the processing loops scheduled fairly, every signed discover
\* message handed to the Discover loop, and every signed accept message
\* that decodes and names this server handed to the ServerAccepted loop, is
\* eventually answered with a Propose, respectively an Ack, published to
\* its sender, unless its registerSession call or its publish fails.
C20_EventuallyAnswered ==
    \A i \in 1..LiveMaxMsgs :
        (/\ i \in DOMAIN handlers
         /\ Msg(i).Src # NoSrc
         /\ handlers[i].fn = "processServerAcceptedRequest"
               => ValidAccept(Msg(i)))
        ~> (/\ i \in DOMAIN handlers
            /\ Answered(i) \/ RegistrationFailed(i) \/ PublishFailed(i))

\* a discover message and a valid accept message have both been answered
C20_Witness ==
    /\ \E i \in Discovers : Msg(i).Src # NoSrc /\ Answered(i)
    /\ \E i \in Accepts : ValidAccept(Msg(i)) /\ Answered(i)

\* the "server" member that names the service of node identity id, written
\* out
ServerText(id) ==
    IF id = nodeID THEN <<"0", "x", "a", "b">> ELSE <<"0", "x", "c", "d">>

\* invocation inv of service id has published one Propose that names the
\* service, to the sender of message msg
ProposedBy(id, inv, msg) ==
    /\ Len(inv.sent) = 1
    /\ inv.sent[1].Dst = msg.Src
    /\ inv.sent[1].Topic = MakeTopic(topicProposeServer)
    /\ inv.sent[1].Payload = [server |-> ServerText(id)]

\* invocation inv of service id has registered the sender of msg once and
\* published one Ack that names the service and carries the session's key
AckedBy(id, inv, msg) ==
    /\ Len(inv.regCalls) = 1
    /\ inv.regCalls[1].err = NilErr
    /\ inv.regCalls[1].ClientKey = ClientKeyText(msg.Src)
    /\ [ClientKey |-> ClientKeyText(msg.Src),
        SessionKey |-> inv.regCalls[1].sessionKey]
           \in services[id].clientSessions
    /\ Len(inv.sent) = 1
    /\ inv.sent[1].Dst = msg.Src
    /\ inv.sent[1].Topic = MakeTopic(topicAckClientSubscription)
    /\ inv.sent[1].Payload =
          [server |-> ServerText(id),
           key |-> SessionKeyText(inv.regCalls[1].sessionKey)]

\* invocation inv has called no registry and published nothing
DidNothing(inv) == inv.regCalls = <<>> /\ inv.sent = <<>>

\* C15 (as stated): in a group of services with distinct node identities,
\* every service that handled a discover message has answered it with a
\* Propose naming itself, and of the services that handled an accept
\* message echoing one Propose, the one named has registered a session and
\* published an Ack, and every other has done nothing.
C15_NamedInstanceAlwaysServes ==
    \A id \in Identities : \A k \in DOMAIN services[id].invocations :
        LET inv == services[id].invocations[k]
            msg == broadcast[inv.msg]
        IN inv.done =>
              IF inv.fn = "processDiscoveryRequest"
              THEN ProposedBy(id, inv, msg)
              ELSE IF msg.Payload = ObjServer(ServerText(id))
              THEN AckedBy(id, inv, msg)
              ELSE DidNothing(inv)

\* C15 (amended): every service that handled a discover message without a
\* wrap or send failure has answered it with a Propose naming itself; of
\* the services that handled an accept message echoing one Propose, every
\* one not named has done nothing and has returned nil or the
\* missing-sender error, and the one named, when it returned nil, has
\* registered one session and published one Ack with that session's key to
\* the client, and otherwise has published nothing.  No service's registry
\* holds a session that none of its own invocations registered.
C15_OnlyNamedInstanceServes ==
    \A id \in Identities :
        /\ \A k \in DOMAIN services[id].invocations :
              LET inv == services[id].invocations[k]
                  msg == broadcast[inv.msg]
              IN /\ ~inv.done => DidNothing(inv)
                 /\ inv.done =>
                       IF inv.fn = "processDiscoveryRequest"
                       THEN IF inv.result = NilErr
                            THEN ProposedBy(id, inv, msg)
                            ELSE DidNothing(inv)
                       ELSE IF msg.Payload # ObjServer(ServerText(id))
                       THEN /\ DidNothing(inv)
                            /\ inv.result \in {NilErr, MissingSenderError}
                       ELSE IF inv.result = NilErr
                       THEN AckedBy(id, inv, msg)
                       ELSE inv.sent = <<>>
        /\ Cardinality(services[id].clientSessions) =
              Cardinality({ k \in DOMAIN services[id].invocations :
                  /\ services[id].invocations[k].regCalls # <<>>
                  /\ services[id].invocations[k].regCalls[1].err = NilErr })

\* both services are running and have answered the client's discover
\* message; the client echoed the Propose of the second service; that
\* service has registered and acked, and the first has returned having
\* done nothing
C15_Witness ==
    /\ \A id \in Identities :
          /\ services[id].pc = "returned"
          /\ services[id].discover /\ services[id].accepted
          /\ Len(services[id].invocations) = 2
          /\ services[id].invocations[1].done
          /\ services[id].invocations[2].done
          /\ ProposedBy(id, services[id].invocations[1], broadcast[1])
    /\ broadcast[2].Payload = ObjServer(ServerText(otherNodeID))
    /\ AckedBy(otherNodeID, services[otherNodeID].invocations[2], broadcast[2])
    /\ DidNothing(services[nodeID].invocations[2])
    /\ services[nodeID].clientSessions = {}

====
